---- MODULE Spec2Model ----
(***************************************************************************)
(* Model of the graph visualizer's core: graphParser.js (parseGraphInput   *)
(* and its addEdge helper) and algorithms.js (MinHeap, dijkstraPQ,         *)
(* primMST), visManager.js (the vis DataSets and their highlighting) and   *)
(* the click handlers of ui.js.                                            *)
(*                                                                         *)
(* JavaScript strings are sequences of one-character strings, so that key  *)
(* building, splitting and sorting are computed the way the code computes  *)
(* them.  JavaScript values of mixed type (weights before coercion) are    *)
(* tagged records.  Numbers are integers; Infinity is a sentinel above     *)
(* every finite number of the model.  The texts are written with letters,  *)
(* digits, the blank, "-", ">" and ":"; numbers are written as optionally  *)
(* signed decimal integers or as 0x / 0b literals.                         *)
(***************************************************************************)
EXTENDS Integers, Sequences, FiniteSets, TLC

VARIABLES
    rawText,    \* the input handed to parseGraphInput
    options,    \* [weighted, directed, inputMode]
    parsed,     \* the value parseGraphInput returned (NotCalled before the call)
    call,       \* the last call or click: its arguments and what it returned
    pq,         \* MinHeap: this.data
    network,    \* visManager.js: the vis.Network, null before createNetwork
    nodesDataSet,   \* visManager.js: the vis.DataSet of the nodes, or null
    edgesDataSet    \* visManager.js: the vis.DataSet of the edges, or null

vars == <<rawText, options, parsed, call, pq, network, nodesDataSet, edgesDataSet>>

visVars == <<network, nodesDataSet, edgesDataSet>>

-----------------------------------------------------------------------------
(* JavaScript values *)

Undefined == [type |-> "undefined"]
Null      == [type |-> "null"]
NaN       == [type |-> "NaN"]
Num(n)    == [type |-> "number", num |-> n]
Str(s)    == [type |-> "string", str |-> s]

\* UTF-16 code units of the characters the inputs are written with
CodeUnit(c) ==
    CASE c = " " -> 32 [] c = "-" -> 45 [] c = "0" -> 48 [] c = "1" -> 49
      [] c = "2" -> 50 [] c = "3" -> 51 [] c = "4" -> 52 [] c = "5" -> 53
      [] c = "6" -> 54 [] c = "7" -> 55 [] c = "8" -> 56 [] c = "9" -> 57
      [] c = ":" -> 58 [] c = ">" -> 62 [] c = "A" -> 65 [] c = "B" -> 66
      [] c = "C" -> 67 [] c = "D" -> 68 [] c = "Z" -> 90 [] c = "b" -> 98
      [] c = "x" -> 120

Digits == <<"0", "1", "2", "3", "4", "5", "6", "7", "8", "9">>

IsDigit(c) == \E i \in 1..10 : Digits[i] = c

DigitValue(c) == CHOOSE i \in 0..9 : Digits[i + 1] = c

\* s < t for two strings: the comparison Array.prototype.sort uses by default
RECURSIVE StrLess(_, _)
StrLess(s, t) ==
    IF t = <<>> THEN FALSE
    ELSE IF s = <<>> THEN TRUE
    ELSE IF CodeUnit(Head(s)) # CodeUnit(Head(t))
         THEN CodeUnit(Head(s)) < CodeUnit(Head(t))
         ELSE StrLess(Tail(s), Tail(t))

\* [a, b].sort(): stable, b moves first only when b < a
SortPair(a, b) == IF StrLess(b, a) THEN <<b, a>> ELSE <<a, b>>

\* String(n) for an integer n
RECURSIVE DigitsOf(_)
DigitsOf(n) ==
    IF n < 10 THEN <<Digits[n + 1]>>
    ELSE DigitsOf(n \div 10) \o <<Digits[(n % 10) + 1]>>

NumberToString(n) == IF n < 0 THEN <<"-">> \o DigitsOf(-n) ELSE DigitsOf(n)

\* s.trim() (the only white space of the inputs is the blank)
RECURSIVE TrimLeft(_)
TrimLeft(s) == IF s # <<>> /\ Head(s) = " " THEN TrimLeft(Tail(s)) ELSE s

RECURSIVE TrimRight(_)
TrimRight(s) ==
    IF s # <<>> /\ s[Len(s)] = " " THEN TrimRight(SubSeq(s, 1, Len(s) - 1)) ELSE s

Trim(s) == TrimRight(TrimLeft(s))

Includes(s, c) == \E i \in 1..Len(s) : s[i] = c

\* s.split(c): the pieces between the occurrences of the character c
RECURSIVE SplitChar(_, _)
SplitChar(s, c) ==
    IF ~Includes(s, c) THEN <<s>>
    ELSE LET i == CHOOSE k \in 1..Len(s) :
                      s[k] = c /\ \A j \in 1..(k - 1) : s[j] # c
         IN <<SubSeq(s, 1, i - 1)>> \o SplitChar(SubSeq(s, i + 1, Len(s)), c)

\* s.split(/\s+/).filter(Boolean): the non-empty blank-separated fields
SplitFields(s) ==
    LET pieces == SplitChar(s, " ")
    IN SelectSeq(pieces, LAMBDA p : p # <<>>)

\* the value of a run of decimal digits
RECURSIVE DecimalValue(_)
DecimalValue(s) ==
    IF s = <<>> THEN 0
    ELSE 10 * DecimalValue(SubSeq(s, 1, Len(s) - 1)) + DigitValue(s[Len(s)])

AllDigits(s) == s # <<>> /\ \A i \in 1..Len(s) : IsDigit(s[i])

\* /^0x[0-9a-f]+$/i, and parseInt(s, 16)
HexDigits == <<"0", "1", "2", "3", "4", "5", "6", "7", "8", "9",
               "a", "b", "c", "d", "e", "f">>

UpperHexDigits == <<"0", "1", "2", "3", "4", "5", "6", "7", "8", "9",
                    "A", "B", "C", "D", "E", "F">>

IsHexDigit(c) == \E i \in 1..16 : HexDigits[i] = c \/ UpperHexDigits[i] = c

HexDigitValue(c) == CHOOSE i \in 0..15 : HexDigits[i + 1] = c \/ UpperHexDigits[i + 1] = c

IsHexLiteral(s) ==
    /\ Len(s) >= 3
    /\ s[1] = "0"
    /\ s[2] \in {"x", "X"}
    /\ \A i \in 3..Len(s) : IsHexDigit(s[i])

RECURSIVE HexValue(_)
HexValue(s) ==
    IF s = <<>> THEN 0
    ELSE 16 * HexValue(SubSeq(s, 1, Len(s) - 1)) + HexDigitValue(s[Len(s)])

\* /^0b[01]+$/i, and parseInt(s, 2)
IsBinaryLiteral(s) ==
    /\ Len(s) >= 3
    /\ s[1] = "0"
    /\ s[2] \in {"b", "B"}
    /\ \A i \in 3..Len(s) : s[i] \in {"0", "1"}

RECURSIVE BinaryValue(_)
BinaryValue(s) ==
    IF s = <<>> THEN 0
    ELSE 2 * BinaryValue(SubSeq(s, 1, Len(s) - 1)) + DigitValue(s[Len(s)])

\* Number(s) for a string s: an optionally signed run of digits is its value,
\* the empty string is 0, any other string of the inputs is NaN
StringToNumber(s) ==
    LET t == Trim(s)
    IN IF t = <<>> THEN Num(0)
       ELSE IF AllDigits(t) THEN Num(DecimalValue(t))
       ELSE IF Head(t) = "-" /\ AllDigits(Tail(t)) THEN Num(0 - DecimalValue(Tail(t)))
       ELSE NaN

\* Number(v)
ToNumber(v) ==
    CASE v.type = "number"    -> v
      [] v.type = "NaN"       -> NaN
      [] v.type = "null"      -> Num(0)
      [] v.type = "undefined" -> NaN
      [] v.type = "string"    -> StringToNumber(v.str)

\* Number.isFinite(v)
IsFiniteNumber(v) == v.type = "number"

\* convert potential numeric/string token to number if possible, else null
toNumberIfPossible(val) ==
    IF val.type = "number" THEN val
    ELSE IF val.type # "string" THEN Null
    ELSE LET s == Trim(val.str)
         IN IF s = <<>> THEN Null
            ELSE IF IsHexLiteral(s) THEN Num(HexValue(SubSeq(s, 3, Len(s))))
            ELSE IF IsBinaryLiteral(s) THEN Num(BinaryValue(SubSeq(s, 3, Len(s))))
            ELSE LET n == StringToNumber(s)
                 IN IF IsFiniteNumber(n) THEN n ELSE Null

-----------------------------------------------------------------------------
(* graphParser.js *)

normalizeEdgeKey(u, v, isDirected) ==
    IF isDirected THEN u \o <<"-", ">">> \o v
    ELSE LET p == SortPair(u, v) IN p[1] \o <<"-", "-">> \o p[2]

\* obj[key] = value on a plain object
SetProp(obj, key, value) ==
    [k \in DOMAIN obj \cup {key} |-> IF k = key THEN value ELSE obj[k]]

\* obj[key] || []
PropOrEmpty(obj, key) == IF key \in DOMAIN obj THEN obj[key] ELSE <<>>

\* set.add(x) on a Set kept in insertion order
SetAdd(s, x) == IF \E i \in 1..Len(s) : s[i] = x THEN s ELSE Append(s, x)

\* the output structures at the start of a parse
EmptyOutput ==
    [adjacency     |-> <<>>,
     edgeKeyToId   |-> <<>>,
     nodesSet      |-> <<>>,
     edgesArr      |-> <<>>,
     edgeIdCounter |-> 0]

\* the weight addEdge computes from its argument: a number, or undefined
EdgeWeight(weighted, weight) ==
    IF weighted
    THEN IF IsFiniteNumber(ToNumber(weight)) THEN ToNumber(weight) ELSE Num(1)
    ELSE IF IsFiniteNumber(ToNumber(weight)) THEN ToNumber(weight) ELSE Undefined

\* the weight stored in the adjacency entries
AdjacencyWeight(w) == IF w = Undefined THEN 1 ELSE w.num

\* edgeIdCounter++ with the bug of never counting
NextEdgeIdStuck(counter) == counter

\* edgeIdCounter++
NextEdgeId(counter) == counter + 1

PushEntry(adjacency, under, to, w, edgeId) ==
    SetProp(adjacency, under,
            Append(PropOrEmpty(adjacency, under),
                   [to |-> to, weight |-> AdjacencyWeight(w), edgeId |-> edgeId]))

\* the back entry with the bug of leaving it out for a self-loop
BackEntryNoLoop(adjacency, directed, fromId, toId, w, edgeId) ==
    IF ~directed /\ fromId # toId THEN PushEntry(adjacency, toId, fromId, w, edgeId)
    ELSE adjacency

\* if (!directed): the entry under toId that points back at fromId
BackEntry(adjacency, directed, fromId, toId, w, edgeId) ==
    IF ~directed THEN PushEntry(adjacency, toId, fromId, w, edgeId)
    ELSE adjacency

addEdge(st, opts, fromId, toId, weight) ==
    LET w       == EdgeWeight(opts.weighted, weight)
        edgeObj == [id     |-> st.edgeIdCounter,
                    from   |-> fromId,
                    to     |-> toId,
                    label  |-> IF opts.weighted
                               THEN Str(NumberToString(AdjacencyWeight(w)))
                               ELSE Undefined,
                    arrows |-> IF opts.directed THEN Str(<<"t", "o">>) ELSE Undefined]
        key     == normalizeEdgeKey(fromId, toId, opts.directed)
        adj1    == PushEntry(st.adjacency, fromId, toId, w, st.edgeIdCounter)
        adj2    == BackEntry(adj1, opts.directed, fromId, toId, w, st.edgeIdCounter)
    IN [adjacency     |-> adj2,
        edgeKeyToId   |-> SetProp(st.edgeKeyToId, key, st.edgeIdCounter),
        nodesSet      |-> SetAdd(SetAdd(st.nodesSet, fromId), toId),
        edgesArr      |-> Append(st.edgesArr, edgeObj),
        edgeIdCounter |-> NextEdgeId(st.edgeIdCounter)]

\* a parse in progress: the output structures, and how many times the parser
\* has called addEdge so far
StartParse == [out |-> EmptyOutput, calls |-> 0]

CallAddEdge(ps, opts, fromId, toId, weight) ==
    [out |-> addEdge(ps.out, opts, fromId, toId, weight), calls |-> ps.calls + 1]

\* x ?? 1
OrOne(x) == IF x = Null \/ x = Undefined THEN Num(1) ELSE x

\* plain mode, one neighbor token of an adjacency-list line
PlainNeighbor(ps, opts, from, tok) ==
    IF Includes(tok, "-")
    THEN LET pieces == SplitChar(tok, "-")
             to     == Trim(pieces[1])
             w      == OrOne(toNumberIfPossible(Str(pieces[2])))
         IN CallAddEdge(ps, opts, from, to, w)
    ELSE CallAddEdge(ps, opts, from, Trim(tok), Undefined)

RECURSIVE PlainNeighbors(_, _, _, _)
PlainNeighbors(ps, opts, from, toks) ==
    IF toks = <<>> THEN ps
    ELSE PlainNeighbors(PlainNeighbor(ps, opts, from, Head(toks)), opts, from, Tail(toks))

\* plain mode, one trimmed non-empty line
PlainLine(ps, opts, line) ==
    IF Includes(line, ":")
    THEN LET pieces    == SplitChar(line, ":")
             from      == Trim(pieces[1])
             neighbors == SplitFields(Trim(pieces[2]))
             seen      == [ps EXCEPT !.out.nodesSet = SetAdd(@, from)]
         IN PlainNeighbors(seen, opts, from, neighbors)
    ELSE LET parts == SplitFields(line)
         IN IF Len(parts) < 2 THEN ps
            ELSE LET wRaw == IF Len(parts) >= 3 THEN Str(parts[3]) ELSE Undefined
                     w    == IF wRaw = Undefined THEN Undefined
                             ELSE toNumberIfPossible(wRaw)
                 IN CallAddEdge(ps, opts, parts[1], parts[2], w)

RECURSIVE PlainLines(_, _, _)
PlainLines(ps, opts, lines) ==
    IF lines = <<>> THEN ps
    ELSE PlainLines(PlainLine(ps, opts, Head(lines)), opts, Tail(lines))

\* plain mode: rawText is the text cut at its line breaks
ParsePlain(text, opts) ==
    LET trimmed == [i \in 1..Len(text) |-> Trim(text[i])]
        lines   == SelectSeq(trimmed, LAMBDA l : l # <<>>)
    IN PlainLines(StartParse, opts, lines)

\* JSON values: Num, Str, Null, arrays and objects
Arr(items) == [type |-> "array", items |-> items]
Obj(props) == [type |-> "object", props |-> props]

\* what the three attempts to read the text as JSON leave in `parsed` when
\* all of them fail
Unparsable == Null

IsArray(v) == v.type = "array"

\* !v for a JSON value
Falsy(v) ==
    \/ v.type = "null"
    \/ v.type = "number" /\ v.num = 0
    \/ v.type = "string" /\ v.str = <<>>

\* String(v) for a number or a string
StringOf(v) ==
    CASE v.type = "number" -> NumberToString(v.num)
      [] v.type = "string" -> v.str

ParseError(message) == [type |-> "error", message |-> message]

\* array mode, edge-list shape: each entry is [u, v] or [u, v, w]
RECURSIVE ArrayEdges(_, _, _)
ArrayEdges(ps, opts, entries) ==
    IF entries = <<>> THEN ps
    ELSE LET entry == Head(entries).items
             wRaw  == IF Len(entry) >= 3 THEN entry[3] ELSE Undefined
             w     == IF wRaw = Undefined THEN Undefined ELSE toNumberIfPossible(wRaw)
         IN ArrayEdges(CallAddEdge(ps, opts, StringOf(entry[1]), StringOf(entry[2]), w),
                       opts, Tail(entries))

RECURSIVE ArrayNeighbors(_, _, _, _)
ArrayNeighbors(ps, opts, u, neigh) ==
    IF neigh = <<>> THEN ps
    ELSE ArrayNeighbors(CallAddEdge(ps, opts, u, StringOf(Head(neigh)), Undefined),
                        opts, u, Tail(neigh))

\* array mode, adjacency-list shape: entry i (0-based) lists the neighbors of node i
RECURSIVE ArrayAdjacency(_, _, _, _)
ArrayAdjacency(ps, opts, entries, i) ==
    IF i >= Len(entries) THEN ps
    ELSE ArrayAdjacency(
             ArrayNeighbors(ps, opts, NumberToString(i), entries[i + 1].items),
             opts, entries, i + 1)

\* the array an object stands for: its edges, else its graph, else its first
\* array property
ObjectArray(v) ==
    LET props == v.props
        Named(name) == {i \in 1..Len(props) : props[i][1] = name /\ IsArray(props[i][2])}
        Arrays == {i \in 1..Len(props) : IsArray(props[i][2])}
        First(S) == CHOOSE i \in S : \A j \in S : i <= j
    IN IF Named("edges") # {} THEN props[First(Named("edges"))][2]
       ELSE IF Named("graph") # {} THEN props[First(Named("graph"))][2]
       ELSE IF Arrays # {} THEN props[First(Arrays)][2]
       ELSE ParseError("no array-property")

\* array mode: rawText is the value the JSON attempts produced
ParseArray(json, opts) ==
    IF Falsy(json) THEN ParseError("Failed to parse array-style input")
    ELSE LET value == IF json.type = "object" THEN ObjectArray(json) ELSE json
         IN IF value.type = "error" THEN value
            ELSE IF ~IsArray(value) THEN ParseError("did not result in an array")
            ELSE LET items == value.items
                     isEdgesList ==
                         /\ Len(items) > 0
                         /\ \A i \in 1..Len(items) :
                                IsArray(items[i]) /\ Len(items[i].items) >= 2
                     isAdjList ==
                         /\ Len(items) > 0
                         /\ \A i \in 1..Len(items) : IsArray(items[i])
                 IN IF isEdgesList THEN ArrayEdges(StartParse, opts, items)
                    ELSE IF isAdjList THEN ArrayAdjacency(StartParse, opts, items, 0)
                    ELSE ParseError("Unrecognized array structure")

\* the model parseGraphInput returns, or the error it throws; addEdgeCalls
\* records how many addEdge calls the parse made
parseGraphInput(text, opts) ==
    LET ps == IF opts.inputMode = "array" THEN ParseArray(text, opts)
              ELSE ParsePlain(text, opts)
    IN IF "type" \in DOMAIN ps THEN ps
       ELSE [type         |-> "model",
             nodesArr     |-> [i \in 1..Len(ps.out.nodesSet) |->
                                  [id |-> ps.out.nodesSet[i], label |-> ps.out.nodesSet[i]]],
             edgesArr     |-> ps.out.edgesArr,
             adjacency    |-> ps.out.adjacency,
             edgeKeyToId  |-> ps.out.edgeKeyToId,
             isDirected   |-> opts.directed,
             addEdgeCalls |-> ps.calls]

-----------------------------------------------------------------------------
(* algorithms.js: MinHeap.  data[i] of the code is data[i + 1] here. *)

_swap(data, a, b) ==
    [data EXCEPT ![a + 1] = data[b + 1], ![b + 1] = data[a + 1]]

_parent(i) == (i - 1) \div 2

_left(i) == 2 * i + 1

_right(i) == 2 * i + 2

\* _siftUp with the bug of leaving the new item where it was pushed
_siftUpNever(data, i) == data

RECURSIVE _siftUp(_, _)
_siftUp(data, i) ==
    IF i > 0
    THEN LET p == _parent(i)
         IN IF data[p + 1].priority <= data[i + 1].priority THEN data
            ELSE _siftUp(_swap(data, i, p), p)
    ELSE data

\* _siftDown with the bug of leaving the moved item at the root
_siftDownNever(data, i) == data

RECURSIVE _siftDown(_, _)
_siftDown(data, i) ==
    LET l  == _left(i)
        r  == _right(i)
        s1 == IF l < Len(data) /\ data[l + 1].priority < data[i + 1].priority
              THEN l ELSE i
        smallest == IF r < Len(data) /\ data[r + 1].priority < data[s1 + 1].priority
                    THEN r ELSE s1
    IN IF smallest = i THEN data
       ELSE _siftDown(_swap(data, i, smallest), smallest)

push(data, item) == _siftUp(Append(data, item), Len(data))

\* pop: the item returned (Null on an empty heap) and the heap left
pop(data) ==
    IF Len(data) = 0 THEN [popped |-> Null, data |-> data]
    ELSE LET swapped == _swap(data, 0, Len(data) - 1)
             rest    == SubSeq(swapped, 1, Len(swapped) - 1)
         IN [popped |-> swapped[Len(swapped)],
             data   |-> IF rest = <<>> THEN rest ELSE _siftDown(rest, 0)]

isEmpty(data) == Len(data) = 0

-----------------------------------------------------------------------------
(* algorithms.js: dijkstraPQ *)

\* Infinity: above every finite distance of the model
Infinity == 1000000

\* The magnitude at which a negative double stops changing when an edge
\* weight is added to it (2^53 for a weight of -1), scaled down.
NumLimit == 12

\* The length at which Array.prototype.push throws a RangeError (2^32 - 1),
\* scaled down; above the number of nodes of every model, so a walk that
\* visits each node at most once never reaches it.
PathLimit == 8

\* a + b on numbers
NumAdd(a, b) == IF a + b < 0 - NumLimit THEN 0 - NumLimit ELSE a + b

NoPath == [type |-> "result", distance |-> Infinity, path |-> <<>>, edgeIds |-> <<>>]

RangeError == [type |-> "threw", error |-> "RangeError: Invalid array length"]

\* Relax with the bug of comparing the edge weight alone, not the distance
\* through u
RECURSIVE RelaxWeightOnly(_, _, _)
RelaxWeightOnly(st, u, neighbors) ==
    IF neighbors = <<>> THEN st
    ELSE LET e   == Head(neighbors)
             v   == e.to
             alt == e.weight
         IN IF v \in DOMAIN st.dist /\ alt < st.dist[v]
            THEN RelaxWeightOnly([dist |-> SetProp(st.dist, v, alt),
                                  prev |-> SetProp(st.prev, v, Str(u)),
                                  pq   |-> push(st.pq, [node |-> v, priority |-> alt])],
                                 u, Tail(neighbors))
            ELSE RelaxWeightOnly(st, u, Tail(neighbors))

\* the for loop over the neighbors of u: relax each edge in turn
RECURSIVE Relax(_, _, _)
Relax(st, u, neighbors) ==
    IF neighbors = <<>> THEN st
    ELSE LET e   == Head(neighbors)
             v   == e.to
             w   == e.weight
             alt == NumAdd(st.dist[u], w)
         IN IF v \in DOMAIN st.dist /\ alt < st.dist[v]
            THEN Relax([dist |-> SetProp(st.dist, v, alt),
                        prev |-> SetProp(st.prev, v, Str(u)),
                        pq   |-> push(st.pq, [node |-> v, priority |-> alt])],
                       u, Tail(neighbors))
            ELSE Relax(st, u, Tail(neighbors))

\* while (!pq.isEmpty()): the state the loop ends in
RECURSIVE RelaxationLoop(_, _, _)
RelaxationLoop(st, adjacency, target) ==
    IF isEmpty(st.pq) THEN st
    ELSE LET r    == pop(st.pq)
             it   == r.popped
             u    == it.node
             d    == it.priority
             rest == [st EXCEPT !.pq = r.data]
         IN IF d > st.dist[u] THEN RelaxationLoop(rest, adjacency, target)
            ELSE IF u = target THEN rest
            ELSE RelaxationLoop(Relax(rest, u, PropOrEmpty(adjacency, u)),
                                adjacency, target)

\* isFinite(dist[target]) with the bug of taking every target for reached
TargetReachedAlways(dist, target) == TRUE

\* isFinite(dist[target]); dist[target] is undefined when target is no key
TargetReached(dist, target) == target \in DOMAIN dist /\ dist[target] # Infinity

\* prev[cur], where cur is a string or undefined (the key "undefined")
PrevOf(prev, cur) ==
    IF cur.type = "string" /\ cur.str \in DOMAIN prev THEN prev[cur.str]
    ELSE Undefined

\* while (cur !== null): the path built back from the target, or the
\* RangeError of the push that no longer fits
RECURSIVE PredecessorWalk(_, _, _)
PredecessorWalk(prev, path, cur) ==
    IF cur = Null THEN [type |-> "path", path |-> path]
    ELSE IF Len(path) >= PathLimit THEN RangeError
    ELSE PredecessorWalk(prev, Append(path, cur), PrevOf(prev, cur))

Reverse(s) == [i \in 1..Len(s) |-> s[Len(s) + 1 - i]]

normalizeKey(a, b, directed) ==
    IF directed THEN a \o <<"-", ">">> \o b
    ELSE LET p == SortPair(a, b) IN p[1] \o <<"-", "-">> \o p[2]

\* the edge ids of the consecutive pairs of the path, from position i on
RECURSIVE PathEdgeIds(_, _, _, _)
PathEdgeIds(path, edgeKeyToId, isDirected, i) ==
    IF i + 1 > Len(path) THEN <<>>
    ELSE LET a    == path[i]
             b    == path[i + 1]
             key  == normalizeKey(a, b, isDirected)
             back == normalizeKey(b, a, isDirected)
             rest == PathEdgeIds(path, edgeKeyToId, isDirected, i + 1)
         IN IF key \in DOMAIN edgeKeyToId THEN <<edgeKeyToId[key]>> \o rest
            ELSE IF back \in DOMAIN edgeKeyToId THEN <<edgeKeyToId[back]>> \o rest
            ELSE rest

\* dijkstraPQ: the result object returned, or the error thrown
dijkstraPQ(adjacency, edgeKeyToId, isDirected, source, target, nodesIterable) ==
    IF source = <<>> \/ target = <<>> THEN NoPath
    ELSE
    LET nodes == {nodesIterable[i] : i \in 1..Len(nodesIterable)}
        dist0 == SetProp([n \in nodes |-> Infinity], source, 0)
        prev0 == [n \in nodes |-> Null]
        pq0   == push(<<>>, [node |-> source, priority |-> 0])
        final == RelaxationLoop([dist |-> dist0, prev |-> prev0, pq |-> pq0],
                                adjacency, target)
    IN IF ~TargetReached(final.dist, target) THEN NoPath
       ELSE LET walk == PredecessorWalk(final.prev, <<>>, Str(target))
            IN IF walk.type = "threw" THEN walk
               ELSE LET path == Reverse([i \in 1..Len(walk.path) |-> walk.path[i].str])
                    IN [type     |-> "result",
                        distance |-> final.dist[target],
                        path     |-> path,
                        edgeIds  |-> PathEdgeIds(path, edgeKeyToId, isDirected, 1)]

-----------------------------------------------------------------------------
(* algorithms.js: primMST *)

\* the sort with the bug of leaving the candidates in insertion order
SortByWeightNot(cands) == cands

\* edgeCandidates.sort((a, b) => a.weight - b.weight): stable
RECURSIVE SortByWeight(_)
SortByWeight(cands) ==
    IF cands = <<>> THEN <<>>
    ELSE LET sorted == SortByWeight(SubSeq(cands, 1, Len(cands) - 1))
             x      == cands[Len(cands)]
             k      == Cardinality({i \in 1..Len(sorted) : sorted[i].weight <= x.weight})
         IN SubSeq(sorted, 1, k) \o <<x>> \o SubSeq(sorted, k + 1, Len(sorted))

\* the candidate an adjacency entry of `from` makes
Candidate(from, e) ==
    [from |-> from, to |-> e.to, weight |-> e.weight, edgeId |-> e.edgeId]

\* the candidates the start node seeds: every entry under it
StartCandidates(adjacency, start) ==
    LET es == PropOrEmpty(adjacency, start)
    IN [i \in 1..Len(es) |-> Candidate(start, es[i])]

\* the candidates a node that joined the tree adds: its entries that lead out
\* of the tree
NewCandidates(adjacency, from, inMST) ==
    LET es   == PropOrEmpty(adjacency, from)
        kept == SelectSeq(es, LAMBDA e : e.to \notin inMST)
    IN [i \in 1..Len(kept) |-> Candidate(from, kept[i])]

RemoveAt(s, i) == SubSeq(s, 1, i - 1) \o SubSeq(s, i + 1, Len(s))

\* the search with the bug of taking the lightest candidate wherever it leads
FirstValidAny(cands, inMST) == IF cands = <<>> THEN -1 ELSE 0

\* the index (from 0) of the first candidate that leads out of the tree, -1
\* when there is none
FirstValid(cands, inMST) ==
    LET valid == {i \in 1..Len(cands) : cands[i].to \notin inMST}
    IN IF valid = {} THEN -1
       ELSE (CHOOSE i \in valid : \A j \in valid : i <= j) - 1

RECURSIVE PrimLoop(_, _, _)
PrimLoop(st, adjacency, nodeCount) ==
    IF ~(Cardinality(st.inMST) < nodeCount /\ Len(st.edgeCandidates) > 0) THEN st
    ELSE LET sorted == SortByWeight(st.edgeCandidates)
             idx0   == FirstValid(sorted, st.inMST)
         IN IF idx0 = -1 THEN [st EXCEPT !.edgeCandidates = sorted]
            ELSE LET idx    == idx0 + 1
                     chosen == sorted[idx]
                     inMST  == st.inMST \cup {chosen.to}
                 IN PrimLoop(
                        [inMST          |-> inMST,
                         edgeCandidates |->
                             RemoveAt(sorted, idx) \o
                             NewCandidates(adjacency, chosen.to, inMST),
                         chosenEdgeIds  |-> Append(st.chosenEdgeIds, chosen.edgeId),
                         totalWeight    |-> st.totalWeight + chosen.weight],
                        adjacency, nodeCount)

\* primMST; startNode is Null or a string
primMST(adjacency, nodesIterable, startNode) ==
    LET nodes == nodesIterable
        Has(x) == \E i \in 1..Len(nodes) : nodes[i] = x
    IN IF Len(nodes) = 0
       THEN [type |-> "result", totalWeight |-> 0, edgeIds |-> <<>>]
       ELSE LET start == IF startNode # Null /\ startNode.str # <<>> /\ Has(startNode.str)
                         THEN startNode.str ELSE nodes[1]
                final == PrimLoop(
                             [inMST          |-> {start},
                              edgeCandidates |-> StartCandidates(adjacency, start),
                              chosenEdgeIds  |-> <<>>,
                              totalWeight    |-> 0],
                             adjacency, Len(nodes))
            IN [type        |-> "result",
                totalWeight |-> final.totalWeight,
                edgeIds     |-> final.chosenEdgeIds]

-----------------------------------------------------------------------------
(* visManager.js.  The module state is the record [network, nodes, edges]; *)
(* a DataSet holds the sequence of its items in insertion order.  An item  *)
(* holds the fields it was created with and the style fields the updates   *)
(* set, undefined until then.                                              *)

NodeItem(n) ==
    [id |-> n.id, label |-> Str(n.label),
     color |-> Undefined, font |-> Undefined, size |-> Undefined]

EdgeItem(e) ==
    [id |-> e.id, from |-> Str(e.from), to |-> Str(e.to), label |-> e.label,
     arrows |-> e.arrows, color |-> Undefined, width |-> Undefined]

\* the item DataSet.update creates when no item has the id
BlankNode(id) ==
    [id |-> id, label |-> Undefined,
     color |-> Undefined, font |-> Undefined, size |-> Undefined]

BlankEdge(id) ==
    [id |-> id, from |-> Undefined, to |-> Undefined, label |-> Undefined,
     arrows |-> Undefined, color |-> Undefined, width |-> Undefined]

\* the fields of patch written over those of item
Merge(item, patch) ==
    [f \in DOMAIN item |-> IF f \in DOMAIN patch THEN patch[f] ELSE item[f]]

\* new vis.DataSet(items)
DataSet(items) == [type |-> "DataSet", items |-> items]

\* DataSet.update(patch): the item with the id of patch takes its fields;
\* an item is created when none has the id
DataSetUpdate(ds, blank, patch) ==
    IF \E i \in 1..Len(ds.items) : ds.items[i].id = patch.id
    THEN DataSet([i \in 1..Len(ds.items) |->
                     IF ds.items[i].id = patch.id THEN Merge(ds.items[i], patch)
                     ELSE ds.items[i]])
    ELSE DataSet(Append(ds.items, Merge(blank, patch)))

\* createNetwork: new DataSets of the arrays and a network whose edge
\* option arrows.to.enabled is isDirected
createNetwork(nodesArr, edgesArr, isDirected) ==
    [network |-> [arrowsTo |-> isDirected],
     nodes   |-> DataSet([i \in 1..Len(nodesArr) |-> NodeItem(nodesArr[i])]),
     edges   |-> DataSet([i \in 1..Len(edgesArr) |-> EdgeItem(edgesArr[i])])]

\* the update resetHighlights makes to an edge
ResetEdge(edge) ==
    [id |-> edge.id, color |-> [color |-> "#888"], width |-> Num(1),
     arrows |-> [to |-> FALSE]]

\* the update resetHighlights makes to a node
ResetNode(node) ==
    [id |-> node.id, color |-> [background |-> "#007bff", border |-> "#0056b3"],
     font |-> [color |-> "#fff"], size |-> Num(25)]

resetHighlights(v) ==
    IF v.nodes = Null \/ v.edges = Null THEN v
    ELSE [v EXCEPT
             !.nodes = DataSet([i \in 1..Len(v.nodes.items) |->
                                   Merge(v.nodes.items[i], ResetNode(v.nodes.items[i]))]),
             !.edges = DataSet([i \in 1..Len(v.edges.items) |->
                                   Merge(v.edges.items[i], ResetEdge(v.edges.items[i]))])]

\* nodePath.forEach of highlightPath
RECURSIVE HighlightNodes(_, _)
HighlightNodes(ds, nodePath) ==
    IF nodePath = <<>> THEN ds
    ELSE HighlightNodes(
             DataSetUpdate(ds, BlankNode(Head(nodePath)),
                           [id    |-> Head(nodePath),
                            color |-> [background |-> "#ffcc00", border |-> "#cc9900"],
                            font  |-> [color |-> "#000"],
                            size  |-> Num(30)]),
             Tail(nodePath))

\* edgeIds.forEach of highlightPath and highlightMST
RECURSIVE HighlightEdges(_, _, _)
HighlightEdges(ds, edgeIds, color) ==
    IF edgeIds = <<>> THEN ds
    ELSE HighlightEdges(
             DataSetUpdate(ds, BlankEdge(Head(edgeIds)),
                           [id |-> Head(edgeIds), color |-> [color |-> color],
                            width |-> Num(4)]),
             Tail(edgeIds), color)

highlightPath(v, nodePath, edgeIds) ==
    LET r == resetHighlights(v)
    IN IF r.nodes = Null \/ r.edges = Null THEN r
       ELSE [r EXCEPT !.nodes = HighlightNodes(r.nodes, nodePath),
                      !.edges = HighlightEdges(r.edges, edgeIds, "#ff0000")]

highlightMST(v, edgeIds) ==
    LET r == resetHighlights(v)
    IN IF r.edges = Null THEN r
       ELSE [r EXCEPT !.edges = HighlightEdges(r.edges, edgeIds, "#00a000")]

\* how the network draws a node: the style fields of the item, and the node
\* options of createNetwork for the fields the item leaves undefined
NodeStyle(item) ==
    [background |-> IF item.color = Undefined THEN "#007bff" ELSE item.color.background,
     border     |-> IF item.color = Undefined THEN "#0056b3" ELSE item.color.border,
     fontColor  |-> IF item.font = Undefined THEN "#fff" ELSE item.font.color,
     size       |-> IF item.size = Undefined THEN 25 ELSE item.size.num]

\* how the network draws an edge: the fields of the item, and the edge
\* options of createNetwork (color, arrows.to.enabled) and the width 1 vis
\* draws by default for the fields the item leaves undefined; the arrow is
\* drawn for arrows "to" and not drawn for arrows {to: false}
EdgeStyle(net, item) ==
    [color |-> IF item.color = Undefined THEN "#888" ELSE item.color.color,
     width |-> IF item.width = Undefined THEN 1 ELSE item.width.num,
     arrow |-> IF item.arrows = Undefined THEN net.arrowsTo
               ELSE IF item.arrows = Str(<<"t", "o">>) THEN TRUE
               ELSE item.arrows.to]

-----------------------------------------------------------------------------
(* The inputs: texts of a few lines written with a few node ids and weights *)

MaxLines == 3

A == <<"A">>
B == <<"B">>
C == <<"C">>
Z == <<"Z">>

\* the text of an edge-list line "u v" or "u v w" (w = <<>>: no weight field)
EdgeLine(u, v, w) == u \o <<" ">> \o v \o (IF w = <<>> THEN <<>> ELSE <<" ">> \o w)

\* the texts of at most n lines drawn from the set lines
Texts(lines, n) == UNION {[1..k -> lines] : k \in 0..n}

AlgoIds == {A, B, C}

AlgoWeights == {<<>>, <<"3">>, <<"-", "2">>}

AlgoLines == {EdgeLine(u, v, w) : u \in AlgoIds, v \in AlgoIds, w \in AlgoWeights}

\* node ids that contain the arrow of the directed edge key
AA == <<"A", "-", ">", "A">>
AB == <<"A", "-", ">", "B">>

MaxParseLines == 2

MaxItems == 2

ParseIds == {A, B, AA, AB}

\* the text of an adjacency-list line "from: tok tok"
RECURSIVE JoinTokens(_)
JoinTokens(toks) ==
    IF toks = <<>> THEN <<>> ELSE <<" ">> \o Head(toks) \o JoinTokens(Tail(toks))

AdjLine(from, toks) == from \o <<":">> \o JoinTokens(toks)

\* edge-list lines with and without a weight, with a weight that is a
\* negative number, a binary literal or no number; adjacency-list lines; a
\* line of one field; a blank line
ParseLines ==
    {EdgeLine(u, v, w) : u \in ParseIds, v \in ParseIds, w \in {<<>>, <<"3">>}}
    \cup {EdgeLine(A, B, w) : w \in {<<"-", "2">>, <<"0", "b", "1", "1">>, <<"x">>}}
    \cup {AdjLine(u, toks) :
             u \in {A, B},
             toks \in {<<>>, <<B>>, <<B \o <<"-", "3">>, A>>, <<A \o <<"-", "x">>>>}}
    \cup {A, <<" ">>}

\* what an element of the outer array can be: an array of at most three
\* scalars (node ids as numbers or strings, then a weight)
ArrayEntries ==
    LET ids == {Num(0), Num(1), Str(A)}
        ws  == {Num(3), Str(<<"3">>), Str(<<"x">>)}
    IN {Arr(<<>>)}
       \cup {Arr(<<u>>) : u \in ids}
       \cup {Arr(<<u, v>>) : u \in ids, v \in ids}
       \cup {Arr(<<u, v, w>>) : u \in ids, v \in ids, w \in ws}

\* the array [[0,1],[1,2],[2]]
AdjacencyExample ==
    Arr(<<Arr(<<Num(0), Num(1)>>), Arr(<<Num(1), Num(2)>>), Arr(<<Num(2)>>)>>)

ArrayInputs ==
    {Unparsable, Num(5), Arr(<<Num(1), Num(2)>>), AdjacencyExample}
    \cup {Arr(items) : items \in UNION {[1..k -> ArrayEntries] : k \in 0..MaxItems}}
    \cup {Obj(<<<<"n", Num(2)>>, <<"edges", Arr(<<e>>)>>>>) : e \in ArrayEntries}
    \cup {Obj(<<<<"n", Num(2)>>>>)}

NotCalled == [type |-> "none"]

NodeIds(model) == [i \in 1..Len(model.nodesArr) |-> model.nodesArr[i].id]

-----------------------------------------------------------------------------
(* One parse, then calls of the algorithms on the model it returned *)

\* no heap built and no network created
NothingElse ==
    /\ pq = <<>>
    /\ network = Null
    /\ nodesDataSet = Null
    /\ edgesDataSet = Null

InitAlgo ==
    /\ rawText \in Texts(AlgoLines, MaxLines)
    /\ options \in [weighted : BOOLEAN, directed : BOOLEAN, inputMode : {"plain"}]
    /\ parsed = NotCalled
    /\ call = NotCalled
    /\ NothingElse

Parse ==
    /\ parsed = NotCalled
    /\ parsed' = parseGraphInput(rawText, options)
    /\ UNCHANGED <<rawText, options, call, pq, visVars>>

RunDijkstra(source, target) ==
    /\ parsed.type = "model"
    /\ call = NotCalled
    /\ call' = [type   |-> "called",
                fn     |-> "dijkstraPQ",
                source |-> source,
                target |-> target,
                res    |-> dijkstraPQ(parsed.adjacency, parsed.edgeKeyToId,
                                      parsed.isDirected, source, target,
                                      NodeIds(parsed))]
    /\ UNCHANGED <<rawText, options, parsed, pq, visVars>>

RunPrim(start) ==
    /\ parsed.type = "model"
    /\ call = NotCalled
    /\ call' = [type  |-> "called",
                fn    |-> "primMST",
                start |-> start,
                res   |-> primMST(parsed.adjacency, NodeIds(parsed), start)]
    /\ UNCHANGED <<rawText, options, parsed, pq, visVars>>

\* source and target range over the node ids and an id that names no node
Init ==
    /\ \/ /\ rawText \in Texts(ParseLines, MaxParseLines)
          /\ options \in [weighted : BOOLEAN, directed : BOOLEAN, inputMode : {"plain"}]
       \/ /\ rawText \in ArrayInputs
          /\ options \in [weighted : BOOLEAN, directed : BOOLEAN, inputMode : {"array"}]
    /\ parsed = NotCalled
    /\ call = NotCalled
    /\ NothingElse

Next == Parse

Spec == Init /\ [][Next]_vars

NextDijkstra ==
    \/ Parse
    \/ \E source \in AlgoIds \cup {Z}, target \in AlgoIds \cup {Z} :
           RunDijkstra(source, target)

SpecDijkstra == InitAlgo /\ [][NextDijkstra]_vars

\* the start node: none given, a node id, or an id that names no node
NextPrim ==
    \/ Parse
    \/ \E start \in {Null} \cup {Str(n) : n \in AlgoIds \cup {Z}} : RunPrim(start)

SpecPrim == InitAlgo /\ [][NextPrim]_vars

-----------------------------------------------------------------------------
(* A MinHeap under any sequence of push, pop and isEmpty *)

MaxHeap == 5

HeapItems == [node : {A, B}, priority : 0..2]

InitHeap ==
    /\ rawText = <<>>
    /\ options = [weighted |-> FALSE, directed |-> FALSE, inputMode |-> "plain"]
    /\ parsed = NotCalled
    /\ call = NotCalled
    /\ NothingElse

HeapPush(item) ==
    /\ Len(pq) < MaxHeap
    /\ pq' = push(pq, item)
    /\ call' = [type |-> "called", fn |-> "push", item |-> item, before |-> pq,
                res |-> Undefined]
    /\ UNCHANGED <<rawText, options, parsed, visVars>>

HeapPop ==
    /\ pq' = pop(pq).data
    /\ call' = [type |-> "called", fn |-> "pop", item |-> Undefined, before |-> pq,
                res |-> pop(pq).popped]
    /\ UNCHANGED <<rawText, options, parsed, visVars>>

HeapIsEmpty ==
    /\ call' = [type |-> "called", fn |-> "isEmpty", item |-> Undefined, before |-> pq,
                res |-> isEmpty(pq)]
    /\ UNCHANGED <<rawText, options, parsed, pq, visVars>>

NextHeap ==
    \/ \E item \in HeapItems : HeapPush(item)
    \/ HeapPop
    \/ HeapIsEmpty

SpecHeap == InitHeap /\ [][NextHeap]_vars

-----------------------------------------------------------------------------
(* ui.js: the click handlers of initUI.  rawText and options are the text  *)
(* area and the checkboxes as the last Generate click read them; call      *)
(* records the last click: what the algorithm returned and the last        *)
(* function of visManager.js the handler called.                           *)

\* the initial example of initUI
ExampleText ==
    <<EdgeLine(<<"1">>, <<"2">>, <<"1", "0">>),
      EdgeLine(<<"1">>, <<"3">>, <<"5">>),
      EdgeLine(<<"2">>, <<"3">>, <<"2">>),
      EdgeLine(<<"3">>, <<"4">>, <<"1">>),
      EdgeLine(<<"2">>, <<"5">>, <<"7">>)>>

\* what the text area can hold at a Generate click in plain mode: nothing,
\* lines of edges, a line of one field, the example
UITexts ==
    {<<>>, <<A>>, ExampleText,
     <<EdgeLine(A, B, <<"3">>)>>,
     <<EdgeLine(A, B, <<>>), EdgeLine(B, C, <<>>)>>}

\* and in array mode: text that is no JSON, [], [[]], [[0,1]]
UIArrays ==
    {Unparsable, Arr(<<>>), Arr(<<Arr(<<>>)>>), Arr(<<Arr(<<Num(0), Num(1)>>)>>)}

\* what the source, target and start fields can hold, trimmed
UIIds == {<<>>, <<"1">>, <<"4">>, A, C}

VisState == [network |-> network, nodes |-> nodesDataSet, edges |-> edgesDataSet]

SetVis(v) ==
    /\ network' = v.network
    /\ nodesDataSet' = v.nodes
    /\ edgesDataSet' = v.edges

Clicked(fn, res, vis) == [type |-> "called", fn |-> fn, res |-> res, vis |-> vis]

\* renderParsedGraph for the model p
renderParsedGraph(p) ==
    IF p = NotCalled THEN UNCHANGED visVars
    ELSE SetVis(createNetwork(p.nodesArr, p.edgesArr, p.isDirected))

\* the state initUI leaves: the example, weighted and undirected, generated
\* by the click that ends initUI
InitUI ==
    \E opts \in {[weighted |-> TRUE, directed |-> FALSE, inputMode |-> "plain"]} :
        \E res \in {parseGraphInput(ExampleText, opts)} :
            /\ rawText = ExampleText
            /\ options = opts
            /\ parsed = res
            /\ \E v \in {createNetwork(res.nodesArr, res.edgesArr, res.isDirected)} :
                   /\ network = v.network
                   /\ nodesDataSet = v.nodes
                   /\ edgesDataSet = v.edges
            /\ call = Clicked("generateBtn", Undefined, "createNetwork")
            /\ pq = <<>>

\* what a Generate click does with the value res of parseGraphInput: an
\* error is caught and reported, a model is assigned to `parsed` and then
\* rendered unless it has no node
Generated(res) ==
    IF res.type = "error"
    THEN /\ call' = Clicked("generateBtn", Str("Failed to parse graph input"), "none")
         /\ UNCHANGED <<parsed, visVars>>
    ELSE /\ parsed' = res
         /\ IF Len(res.nodesArr) = 0
            THEN /\ call' = Clicked("generateBtn", Str("No nodes parsed"), "none")
                 /\ UNCHANGED visVars
            ELSE /\ call' = Clicked("generateBtn", Undefined, "createNetwork")
                 /\ renderParsedGraph(res)

GenerateClick(raw, opts) ==
    /\ rawText' = raw
    /\ options' = opts
    /\ \E res \in {parseGraphInput(raw, opts)} : Generated(res)
    /\ UNCHANGED pq

ResetClick ==
    /\ SetVis(resetHighlights(VisState))
    /\ call' = Clicked("resetBtn", Undefined, "resetHighlights")
    /\ UNCHANGED <<rawText, options, parsed, pq>>

\* what a Run Dijkstra click does with the outcome res of dijkstraPQ: an
\* exception ends the handler, no path resets the highlights, a path is
\* highlighted
DijkstraShown(res) ==
    IF res.type = "threw"
    THEN /\ call' = Clicked("dijkstraRunBtn", res, "none")
         /\ UNCHANGED visVars
    ELSE IF Len(res.path) = 0
    THEN /\ call' = Clicked("dijkstraRunBtn", res, "resetHighlights")
         /\ SetVis(resetHighlights(VisState))
    ELSE /\ call' = Clicked("dijkstraRunBtn", res, "highlightPath")
         /\ SetVis(highlightPath(VisState, res.path, res.edgeIds))

DijkstraRunClick(src, tgt) ==
    /\ IF parsed = NotCalled \/ src = <<>> \/ tgt = <<>>
       THEN /\ call' = Clicked("dijkstraRunBtn", Undefined, "none")
            /\ UNCHANGED visVars
       ELSE \E res \in {dijkstraPQ(parsed.adjacency, parsed.edgeKeyToId,
                                    parsed.isDirected, src, tgt, NodeIds(parsed))} :
                DijkstraShown(res)
    /\ UNCHANGED <<rawText, options, parsed, pq>>

\* what a Run Prim click does with the result res of primMST
PrimShown(res) ==
    IF Len(res.edgeIds) = 0
    THEN /\ call' = Clicked("primRunBtn", res, "resetHighlights")
         /\ SetVis(resetHighlights(VisState))
    ELSE /\ call' = Clicked("primRunBtn", res, "highlightMST")
         /\ SetVis(highlightMST(VisState, res.edgeIds))

PrimRunClick(startText) ==
    /\ IF parsed = NotCalled
       THEN /\ call' = Clicked("primRunBtn", Undefined, "none")
            /\ UNCHANGED visVars
       ELSE \E res \in {primMST(parsed.adjacency, NodeIds(parsed),
                                 IF startText = <<>> THEN Null ELSE Str(startText))} :
                PrimShown(res)
    /\ UNCHANGED <<rawText, options, parsed, pq>>

NextUI ==
    \/ \E raw \in UITexts, weighted \in BOOLEAN, directed \in BOOLEAN :
           GenerateClick(raw, [weighted |-> weighted, directed |-> directed,
                               inputMode |-> "plain"])
    \/ \E raw \in UIArrays, weighted \in BOOLEAN, directed \in BOOLEAN :
           GenerateClick(raw, [weighted |-> weighted, directed |-> directed,
                               inputMode |-> "array"])
    \/ ResetClick
    \/ \E src \in UIIds, tgt \in UIIds : DijkstraRunClick(src, tgt)
    \/ \E startText \in UIIds : PrimRunClick(startText)

SpecUI == InitUI /\ [][NextUI]_vars

-----------------------------------------------------------------------------
(* What the claims speak of, defined from the model alone and not from the *)
(* algorithms                                                              *)

Nodes(model) == {model.nodesArr[i].id : i \in 1..Len(model.nodesArr)}

\* the adjacency entries: an entry e listed under node u
EntriesOf(model) ==
    UNION {{[u |-> u, e |-> model.adjacency[u][i]] : i \in 1..Len(model.adjacency[u])} :
              u \in DOMAIN model.adjacency}

NonNegative(model) == \A x \in EntriesOf(model) : x.e.weight >= 0

\* the nodes an adjacency walk from s reaches
RECURSIVE ReachFrom(_, _)
ReachFrom(model, S) ==
    LET more == S \cup {x.e.to : x \in {y \in EntriesOf(model) : y.u \in S}}
    IN IF more = S THEN S ELSE ReachFrom(model, more)

Reachable(model, s, t) == t \in ReachFrom(model, {s})

Min(S) == CHOOSE x \in S : \A y \in S : x <= y

\* the least weight of a walk of at most k edges from s to each node
\* (Infinity: no such walk)
RECURSIVE WalkDist(_, _, _)
WalkDist(model, s, k) ==
    IF k = 0 THEN [v \in Nodes(model) \cup {s} |-> IF v = s THEN 0 ELSE Infinity]
    ELSE LET d == WalkDist(model, s, k - 1)
         IN [v \in DOMAIN d |->
                Min({d[v]} \cup
                    {d[x.u] + x.e.weight :
                        x \in {y \in EntriesOf(model) : y.e.to = v /\ d[y.u] # Infinity}})]

\* with non-negative weights a lightest walk repeats no node
MinWalk(model, s, t) == WalkDist(model, s, Cardinality(Nodes(model)))[t]

RECURSIVE SumSeq(_)
SumSeq(s) == IF s = <<>> THEN 0 ELSE Head(s) + SumSeq(Tail(s))

EdgeIdsOf(model) == {model.edgesArr[i].id : i \in 1..Len(model.edgesArr)}

EdgeById(model, id) ==
    model.edgesArr[CHOOSE i \in 1..Len(model.edgesArr) : model.edgesArr[i].id = id]

\* the weight of an edge: the weight of its adjacency entries
WeightOf(model, id) ==
    (CHOOSE x \in EntriesOf(model) : x.e.edgeId = id).e.weight

\* edge id joins a and b, in the direction a -> b when the model is directed
Joins(model, id, a, b) ==
    /\ id \in EdgeIdsOf(model)
    /\ LET edge == EdgeById(model, id)
       IN \/ edge.from = a /\ edge.to = b
          \/ ~model.isDirected /\ edge.from = b /\ edge.to = a

DijkstraCalled == call.type = "called" /\ call.fn = "dijkstraPQ"

PrimCalled == call.type = "called" /\ call.fn = "primMST"

\* the places of the adjacency entries: entry i (from 1) under node u
Places(model) ==
    UNION {{<<u, i>> : i \in 1..Len(model.adjacency[u])} : u \in DOMAIN model.adjacency}

EntryAt(model, p) == model.adjacency[p[1]][p[2]]

-----------------------------------------------------------------------------
\* C1: on a model with non-negative weights, for nodes source and target with
\* target reachable from source, dijkstraPQ returns the least total weight of
\* an adjacency walk from source to target.
C1_ShortestDistance ==
    (/\ DijkstraCalled
     /\ call.source \in Nodes(parsed)
     /\ call.target \in Nodes(parsed)
     /\ NonNegative(parsed)
     /\ Reachable(parsed, call.source, call.target))
    => /\ call.res.type = "result"
       /\ call.res.distance = MinWalk(parsed, call.source, call.target)

\* a call whose answer is lighter than an edge that joins source and target
\* directly: the answer goes through a third node
C1_Witness ==
    /\ DijkstraCalled
    /\ NonNegative(parsed)
    /\ call.res.type = "result"
    /\ Len(call.res.path) = 3
    /\ \E x \in EntriesOf(parsed) :
           x.u = call.source /\ x.e.to = call.target /\ x.e.weight > call.res.distance

\* C2: for a reachable pair the result's path runs from source to target,
\* edgeIds has one entry per step, edgeIds[i] names an edge between path[i]
\* and path[i+1], and the weights of the named edges sum to the distance.
C2_PathAndEdgeIds ==
    (/\ DijkstraCalled
     /\ call.source \in Nodes(parsed)
     /\ call.target \in Nodes(parsed)
     /\ Reachable(parsed, call.source, call.target))
    => /\ call.res.type = "result"
       /\ call.res.path # <<>>
       /\ call.res.path[1] = call.source
       /\ call.res.path[Len(call.res.path)] = call.target
       /\ Len(call.res.edgeIds) = Len(call.res.path) - 1
       /\ \A i \in 1..Len(call.res.edgeIds) :
              Joins(parsed, call.res.edgeIds[i], call.res.path[i], call.res.path[i + 1])
       /\ SumSeq([i \in 1..Len(call.res.edgeIds) |->
                     WeightOf(parsed, call.res.edgeIds[i])]) = call.res.distance

\* C3: every call of dijkstraPQ with non-empty source and target returns a
\* result object.
C3_AlwaysReturns == DijkstraCalled => call.res.type = "result"

C5_Symmetric ==
    (/\ DijkstraCalled
     /\ ~parsed.isDirected
     /\ NonNegative(parsed)
     /\ call.source \in Nodes(parsed)
     /\ call.target \in Nodes(parsed))
    => LET back == dijkstraPQ(parsed.adjacency, parsed.edgeKeyToId, parsed.isDirected,
                              call.target, call.source, NodeIds(parsed))
       IN /\ call.res.type = "result"
          /\ back.type = "result"
          /\ call.res.distance = back.distance

\* two different nodes of an undirected model, three edges apart in neither
\* direction: the two calls walk different ways round
C5_Witness ==
    /\ DijkstraCalled
    /\ ~parsed.isDirected
    /\ NonNegative(parsed)
    /\ call.source # call.target
    /\ call.res.type = "result"
    /\ Len(call.res.path) = 3
    /\ call.res.distance > 0

-----------------------------------------------------------------------------
(* Spanning trees, defined from the model alone *)

\* the nodes joined to S by edges of T, taken in either direction
RECURSIVE JoinedBy(_, _, _)
JoinedBy(model, T, S) ==
    LET more == S \cup {x.e.to : x \in {y \in EntriesOf(model) :
                                           y.u \in S /\ y.e.edgeId \in T}}
                  \cup {x.u : x \in {y \in EntriesOf(model) :
                                        y.e.to \in S /\ y.e.edgeId \in T}}
    IN IF more = S THEN S ELSE JoinedBy(model, T, more)

RECURSIVE TotalWeight(_, _)
TotalWeight(model, T) ==
    IF T = {} THEN 0
    ELSE LET id == CHOOSE x \in T : TRUE
         IN WeightOf(model, id) + TotalWeight(model, T \ {id})

\* T spans the component comp of start and has no cycle
IsSpanningTree(model, T, start, comp) ==
    /\ T \subseteq EdgeIdsOf(model)
    /\ Cardinality(T) = Cardinality(comp) - 1
    /\ JoinedBy(model, T, {start}) = comp

SpanningTrees(model, start) ==
    {T \in SUBSET EdgeIdsOf(model) :
        IsSpanningTree(model, T, start, ReachFrom(model, {start}))}

Range(s) == {s[i] : i \in 1..Len(s)}

PrimFromNode ==
    /\ PrimCalled
    /\ ~parsed.isDirected
    /\ call.start # Null
    /\ call.start.str \in Nodes(parsed)

\* C6: on an undirected model, from every start node, primMST returns a
\* spanning tree of the start node's component whose total weight is the
\* least of all spanning trees of that component.
C6_MinimumSpanningTree ==
    PrimFromNode
    => LET start == call.start.str
           T     == Range(call.res.edgeIds)
       IN /\ T \in SpanningTrees(parsed, start)
          /\ \A S \in SpanningTrees(parsed, start) :
                 call.res.totalWeight <= TotalWeight(parsed, S)
          /\ call.res.totalWeight = TotalWeight(parsed, T)

\* a component of three nodes with a spanning tree heavier than the one
\* returned
C6_Witness ==
    /\ PrimFromNode
    /\ Cardinality(ReachFrom(parsed, {call.start.str})) = 3
    /\ \E S \in SpanningTrees(parsed, call.start.str) :
           TotalWeight(parsed, S) > call.res.totalWeight

\* C7: on an undirected model primMST returns exactly (size of the start
\* node's component - 1) pairwise distinct edge ids, a partial tree when the
\* graph is disconnected, and totalWeight is the sum of their weights.
C7_EdgeCount ==
    PrimFromNode
    => LET ids == call.res.edgeIds
       IN /\ call.res.type = "result"
          /\ Len(ids) = Cardinality(ReachFrom(parsed, {call.start.str})) - 1
          /\ \A i, j \in 1..Len(ids) : i # j => ids[i] # ids[j]
          /\ ids \in Seq(EdgeIdsOf(parsed))
          /\ call.res.totalWeight =
                 SumSeq([i \in 1..Len(ids) |-> WeightOf(parsed, ids[i])])

\* a disconnected graph: the tree covers the start node's component of two
\* nodes and leaves a third node out
C7_Witness ==
    /\ PrimFromNode
    /\ Cardinality(Nodes(parsed)) = 3
    /\ Cardinality(ReachFrom(parsed, {call.start.str})) = 2
    /\ Len(call.res.edgeIds) = 1

-----------------------------------------------------------------------------
\* C8: the edge at position i of edgesArr (from 0) has id i, and edgesArr
\* has as many edges as the parse made addEdge calls.
C8_DenseEdgeIds ==
    parsed.type = "model"
    => /\ \A i \in 1..Len(parsed.edgesArr) : parsed.edgesArr[i].id = i - 1
       /\ Len(parsed.edgesArr) = parsed.addEdgeCalls

\* an array-mode parse of the adjacency-list shape that added three edges
C8_Witness ==
    /\ parsed.type = "model"
    /\ options.inputMode = "array"
    /\ rawText.type = "array"
    /\ Len(rawText.items[1].items) = 1
    /\ Len(parsed.edgesArr) = 3
    /\ parsed.addEdgeCalls = 3

\* C9: for every adjacency entry (u, v, edgeId) the edge id exists in
\* edgesArr, and edgeKeyToId maps the normalized key of (u, v) to the id of
\* an edge whose endpoints are u and v: the last such edge added.
C9_EdgeKeyResolves ==
    parsed.type = "model"
    => \A x \in EntriesOf(parsed) :
           LET key == normalizeEdgeKey(x.u, x.e.to, parsed.isDirected)
           IN /\ x.e.edgeId \in EdgeIdsOf(parsed)
              /\ key \in DOMAIN parsed.edgeKeyToId
              /\ LET id == parsed.edgeKeyToId[key]
                 IN /\ id \in EdgeIdsOf(parsed)
                    /\ {EdgeById(parsed, id).from, EdgeById(parsed, id).to} = {x.u, x.e.to}
                    /\ \A other \in EdgeIdsOf(parsed) :
                           Joins(parsed, other, x.u, x.e.to) => other <= id

\* C10: undirected, each edge has exactly two adjacency entries with its id
\* and one weight, one under each endpoint pointing at the other; directed,
\* exactly one entry, under its from node.
C10_AdjacencyEntries ==
    parsed.type = "model"
    => \A k \in 1..Len(parsed.edgesArr) :
           LET edge == parsed.edgesArr[k]
               at   == {p \in Places(parsed) : EntryAt(parsed, p).edgeId = edge.id}
           IN IF parsed.isDirected
              THEN /\ Cardinality(at) = 1
                   /\ \A p \in at : p[1] = edge.from /\ EntryAt(parsed, p).to = edge.to
              ELSE /\ Cardinality(at) = 2
                   /\ \E p, q \in at :
                          /\ p # q
                          /\ p[1] = edge.from /\ EntryAt(parsed, p).to = edge.to
                          /\ q[1] = edge.to /\ EntryAt(parsed, q).to = edge.from
                          /\ EntryAt(parsed, p).weight = EntryAt(parsed, q).weight

\* an undirected model with a self-loop of weight 3 beside another edge
C10_Witness ==
    /\ parsed.type = "model"
    /\ ~parsed.isDirected
    /\ Len(parsed.edgesArr) = 2
    /\ \E k \in 1..2 :
           /\ parsed.edgesArr[k].from = parsed.edgesArr[k].to
           /\ WeightOf(parsed, parsed.edgesArr[k].id) = 3

-----------------------------------------------------------------------------
\* the lines of a plain text the parser reads: trimmed, blank ones dropped
LinesOf(text) ==
    SelectSeq([i \in 1..Len(text) |-> Trim(text[i])], LAMBDA l : l # <<>>)

\* a token or field that is no number
NotANumber(s) == toNumberIfPossible(Str(s)) = Null

\* no edge of the input is given a weight that can be read as a number:
\* the weight field is absent or is not a number
NoWeightGiven ==
    IF options.inputMode = "plain"
    THEN \A i \in 1..Len(LinesOf(rawText)) :
             LET line == LinesOf(rawText)[i]
             IN IF Includes(line, ":")
                THEN LET toks == SplitFields(Trim(SplitChar(line, ":")[2]))
                     IN \A k \in 1..Len(toks) :
                            Includes(toks[k], "-") => NotANumber(SplitChar(toks[k], "-")[2])
                ELSE LET parts == SplitFields(line)
                     IN Len(parts) >= 3 => NotANumber(parts[3])
    ELSE /\ rawText.type = "array"
         /\ \A i \in 1..Len(rawText.items) :
                /\ IsArray(rawText.items[i])
                /\ Len(rawText.items[i].items) >= 3
                       => toNumberIfPossible(rawText.items[i].items[3]) = Null

\* C11: parsed with weighted = false, every adjacency entry has weight 1
\* whatever weight the input gives; and in either configuration the entries
\* have weight 1 when the weight of every edge is absent or cannot be read
\* as a number.
C11_UnweightedWeightOne ==
    (parsed.type = "model" /\ (~options.weighted \/ NoWeightGiven))
    => \A x \in EntriesOf(parsed) : x.e.weight = 1

\* C12: in array mode [[0,1],[1,2],[2]] parses to the nodes 0, 1, 2 and to
\* exactly the edges 0->1 and 1->2.
C12_AdjacencyExample ==
    (options.inputMode = "array" /\ rawText = AdjacencyExample /\ parsed # NotCalled)
    => /\ parsed.type = "model"
       /\ Nodes(parsed) = {<<"0">>, <<"1">>, <<"2">>}
       /\ Len(parsed.edgesArr) = 2
       /\ {<<parsed.edgesArr[k].from, parsed.edgesArr[k].to>> :
               k \in 1..Len(parsed.edgesArr)}
              = {<<(<<"0">>), (<<"1">>)>>, <<(<<"1">>), (<<"2">>)>>}

\* the input describes no node and no edge: a plain text of blank lines
\* only, the empty array, an array of empty arrays
DescribesNothing ==
    IF options.inputMode = "plain" THEN LinesOf(rawText) = <<>>
    ELSE /\ rawText.type = "array"
         /\ \A i \in 1..Len(rawText.items) : rawText.items[i] = Arr(<<>>)

\* C13: an input that describes no nodes and no edges parses to a model with
\* empty nodesArr and edgesArr, in plain mode and in array mode, instead of
\* an error.
C13_EmptyIsNoError ==
    (DescribesNothing /\ parsed # NotCalled)
    => /\ parsed.type = "model"
       /\ parsed.nodesArr = <<>>
       /\ parsed.edgesArr = <<>>

\* the nodes joined to the nodes of S by edges taken in either direction
RECURSIVE ReachIgnoringDirection(_, _)
ReachIgnoringDirection(model, S) ==
    LET es   == {model.edgesArr[k] : k \in 1..Len(model.edgesArr)}
        more == S \cup {e.to : e \in {x \in es : x.from \in S}}
                  \cup {e.from : e \in {x \in es : x.to \in S}}
    IN IF more = S THEN S ELSE ReachIgnoringDirection(model, more)

\* C16: on a model parsed with the directed configuration that is connected
\* when edge direction is ignored, primMST returns n - 1 edge ids from every
\* start node.
C16_DirectedAsUndirected ==
    (/\ PrimCalled
     /\ parsed.isDirected
     /\ call.start # Null
     /\ call.start.str \in Nodes(parsed)
     /\ ReachIgnoringDirection(parsed, {call.start.str}) = Nodes(parsed))
    => Len(call.res.edgeIds) = Cardinality(Nodes(parsed)) - 1

\* how many times item x is stored in the heap data
CountOf(data, x) == Cardinality({i \in 1..Len(data) : data[i] = x})

HeapCalled(fn) == call.type = "called" /\ call.fn = fn

\* C15: after any sequence of push and pop, pop removes and returns an item
\* whose priority is at most that of every item still stored, the stored
\* items being the pushed ones minus the popped ones; pop on an empty heap
\* returns null and leaves it empty; isEmpty is true exactly when no item is
\* stored.
C15_PopReturnsMinimum ==
    /\ (HeapCalled("pop") /\ call.before # <<>>)
           => /\ \A i \in 1..Len(pq) : call.res.priority <= pq[i].priority
              /\ \A x \in HeapItems :
                     CountOf(call.before, x)
                         = CountOf(pq, x) + (IF x = call.res THEN 1 ELSE 0)
              /\ Len(pq) = Len(call.before) - 1
    /\ (HeapCalled("pop") /\ call.before = <<>>)
           => call.res = Null /\ pq = <<>>
    /\ HeapCalled("push")
           => /\ \A x \in HeapItems :
                     CountOf(pq, x)
                         = CountOf(call.before, x) + (IF x = call.item THEN 1 ELSE 0)
              /\ Len(pq) = Len(call.before) + 1
    /\ HeapCalled("isEmpty")
           => (call.res <=> \A x \in HeapItems : CountOf(pq, x) = 0)

\* a pop from a full heap of three different priorities that left an item of
\* higher priority than the one it returned
C15_Witness ==
    /\ HeapCalled("pop")
    /\ Len(call.before) = MaxHeap
    /\ {call.before[i].priority : i \in 1..Len(call.before)} = 0..2
    /\ call.res.priority = 0
    /\ \E i \in 1..Len(pq) : pq[i].priority = 2

\* the styles right after createNetwork: no item has a style field yet, and
\* the edges of a directed model carry arrows "to"
CreatedNodeStyle == NodeStyle(BlankNode(<<>>))

CreatedEdgeStyle(net) ==
    EdgeStyle(net, [BlankEdge(0) EXCEPT
                       !.arrows = IF net.arrowsTo THEN Str(<<"t", "o">>) ELSE Undefined])

\* the last click ended in a call of resetHighlights on a rendered graph
AfterReset ==
    /\ call.type = "called"
    /\ call.vis = "resetHighlights"
    /\ network # Null

\* C14: once a model is rendered, after any sequence of highlightPath,
\* highlightMST and resetHighlights that ends in resetHighlights every node
\* and every edge is drawn as right after createNetwork; the edges of a
\* directed graph still show their arrow.
C14_ResetRestoresStyle ==
    AfterReset
    => /\ \A i \in 1..Len(nodesDataSet.items) :
              NodeStyle(nodesDataSet.items[i]) = CreatedNodeStyle
       /\ \A i \in 1..Len(edgesDataSet.items) :
              EdgeStyle(network, edgesDataSet.items[i]) = CreatedEdgeStyle(network)

\* the network shows the model: its nodes, its edges and its directedness
Renders(model) ==
    /\ network # Null
    /\ network.arrowsTo = model.isDirected
    /\ Len(nodesDataSet.items) = Len(model.nodesArr)
    /\ \A i \in 1..Len(nodesDataSet.items) :
           nodesDataSet.items[i].id = model.nodesArr[i].id
    /\ Len(edgesDataSet.items) = Len(model.edgesArr)
    /\ \A i \in 1..Len(edgesDataSet.items) :
           /\ edgesDataSet.items[i].id = model.edgesArr[i].id
           /\ edgesDataSet.items[i].from = Str(model.edgesArr[i].from)
           /\ edgesDataSet.items[i].to = Str(model.edgesArr[i].to)
           /\ edgesDataSet.items[i].label = model.edgesArr[i].label

\* C17: after any sequence of Generate, Run Dijkstra and Run Prim clicks the
\* model held in `parsed` is the model most recently rendered by
\* createNetwork; a Generate click that fails to parse or parses zero nodes
\* leaves both unchanged.
C17_ParsedIsRendered == parsed # NotCalled => Renders(parsed)

====
